---- MODULE Spec2Model ----
(***************************************************************************)
(* Model of customhys' Metaheuristic class (src/metaheuristic.py): the     *)
(* compilation of simple heuristics into executable strings, the run()     *)
(* loop and the historical variables.                                      *)
(*                                                                         *)
(* The population (module population, imported at line 9) is not part of   *)
(* the source at hand; it is modelled from the specification's Population  *)
(* Port: one-dimensional positions on a grid inside the boundaries, the    *)
(* objective f(x) = x, minimised.                                          *)
(*                                                                         *)
(* Encodings.  A Python str that the code formats or executes is a         *)
(* sequence of tokens (identifiers, punctuation, and the single characters *)
(* of string values).  A numpy array the code shares by reference is a     *)
(* cell of `heap`, named by its index.  A position is kept as its grid     *)
(* coordinate c in 0..MaxCoord and stands for the float Unit * c.  numpy's *)
(* float arithmetic is binary floating point with a significand of         *)
(* Precision bits, rounding to nearest, ties to even; a float is kept as   *)
(* the integer Scale times its value.                                      *)
(***************************************************************************)
EXTENDS Integers, Sequences, FiniteSets, TLC

\* ------------------------------------------------------------------ bounds
MaxIterations == 2
NumAgents == 3
MaxCoord == 1
\* bits of a float's significand
Precision == 3
\* the float that the grid coordinate 1 stands for
Unit == 3
\* calls of run() on one engine
MaxRuns == 2

Agents == 1..NumAgents
Coords == 0..MaxCoord
\* fitness of "no best yet": worse than every objective value
Inf == MaxCoord + 1

\* ------------------------------------------------- heuristic descriptors
\* A parameter value is a number or a Python str (a sequence of characters).
Num(n) == [type |-> "int", v |-> n, chars |-> <<>>]
Str(cs) == [type |-> "str", v |-> 0, chars |-> cs]

uniform == Str(<<"u", "n", "i", "f", "o", "r", "m">>)
l_evy == Str(<<"l", "'", "e", "v", "y">>)

\* (operator, parameters, selector); parameters is the dict in items() order
Descriptor(operator, parameters, selector) ==
    [operator |-> operator, parameters |-> parameters, selector |-> selector]

\* The simple_heuristics lists an engine is constructed with.
Heuristics ==
    { <<>>,
      <<Descriptor("random_search", <<>>, "greedy")>>,
      <<Descriptor("random_search",
                   << <<"scale", Num(1)>>, <<"distribution", uniform>> >>, "all"),
        Descriptor("pull_to_best", << <<"step", Num(1)>> >>, "tournament")>>,
      <<Descriptor("pull_to_best", << <<"step", Num(2)>> >>, "greedy"),
        Descriptor("random_search", << <<"scale", Num(2)>> >>, "all")>>,
      <<Descriptor("levy_flight", <<>>, "greedy")>>,
      <<Descriptor("random_search", << <<"distribution", l_evy>> >>, "all")>> }

\* ------------------------------------------------------ process_heuristics
\* "{} = '{}'".format(parameter, value) for a str, "{} = {}" otherwise
FormatParameter(p) ==
    IF p[2].type = "str"
    THEN <<p[1], " = ", "'">> \o p[2].chars \o <<"'">>
    ELSE <<p[1], " = ", ToString(p[2].v)>>

\* sep.join(str_parameters) with sep = ","
RECURSIVE Join(_)
Join(strs) ==
    IF strs = <<>> THEN <<>>
    ELSE IF Len(strs) = 1 THEN strs[1]
    ELSE strs[1] \o <<",">> \o Join(Tail(strs))

\* "{}({})".format(operator, sep.join(str_parameters)); len(parameters) >= 0
\* holds of every dict, so the branch of the default arguments is never taken
FullString(d) ==
    <<d.operator, "(">>
    \o Join([k \in 1..Len(d.parameters) |-> FormatParameter(d.parameters[k])])
    \o <<")">>

\* returns executable_operators, selectors
process_heuristics(simple) ==
    [executable_operators |-> [j \in 1..Len(simple) |-> FullString(simple[j])],
     selectors |-> [j \in 1..Len(simple) |-> simple[j].selector]]

\* ------------------------------------------------- exec("self.pop." + ...)
\* What Python makes of an executable string: the call it denotes, or a
\* syntax error.  A str literal ends at the first quote after its opening one.
SyntaxError == [ok |-> FALSE, operator |-> "", parameters |-> <<>>]

Digits == 0..9

IsNumber(tok) == \E n \in Digits : ToString(n) = tok

NumberOf(tok) == CHOOSE n \in Digits : ToString(n) = tok

\* index of the first quote at or after i, 0 if there is none
RECURSIVE ClosingQuote(_, _)
ClosingQuote(s, i) ==
    IF i > Len(s) THEN 0
    ELSE IF s[i] = "'" THEN i
    ELSE ClosingQuote(s, i + 1)

\* the keyword arguments from token i on, given those already read
RECURSIVE ParseArguments(_, _, _)
ParseArguments(s, i, acc) ==
    IF i + 3 > Len(s) \/ s[i + 1] # " = " THEN SyntaxError
    ELSE LET q == ClosingQuote(s, i + 3)
             isstr == s[i + 2] = "'" /\ q # 0
             isnum == IsNumber(s[i + 2])
             value == IF isstr THEN Str(SubSeq(s, i + 3, q - 1))
                      ELSE Num(NumberOf(s[i + 2]))
             next == IF isstr THEN q + 1 ELSE i + 3
         IN  IF ~isstr /\ ~isnum THEN SyntaxError
             ELSE IF next > Len(s) THEN SyntaxError
             ELSE IF s[next] = ")" /\ next = Len(s)
                  THEN [ok |-> TRUE, operator |-> s[1],
                        parameters |-> Append(acc, <<s[i], value>>)]
             ELSE IF s[next] = ","
                  THEN ParseArguments(s, next + 1, Append(acc, <<s[i], value>>))
             ELSE SyntaxError

ParseCall(s) ==
    IF Len(s) < 3 \/ s[2] # "(" THEN SyntaxError
    ELSE IF Len(s) = 3 /\ s[3] = ")"
         THEN [ok |-> TRUE, operator |-> s[1], parameters |-> <<>>]
    ELSE ParseArguments(s, 3, <<>>)

\* ------------------------------------------------------------- state
VARIABLES
    \* Metaheuristic (self)
    simple_heuristics,              \* the constructor's argument
    operators, selectors,           \* self.operators, self.selectors
    num_iterations,                 \* self.num_iterations
    historical_global_fitness,
    historical_global_position,     \* a list of references into heap
    historical_centroid,            \* list() and then a vector of floats
    historical_radius,              \* a list of floats
    historical_stagnation,
    \* run(): position in the method, its loop variables, what it raised
    pc, iteration, step, error,
    trace,                          \* the calls run() has completed, in order
    \* Population (self.pop)
    pop_iteration,
    positions, fitness,
    previous_positions, previous_fitness,
    particular_best_positions, particular_best_fitness,
    global_best_fitness,
    global_best_position,           \* a reference into heap
    heap,                           \* the position arrays that are shared
    in_place                        \* the population writes its global best
                                    \* into the array it has (TRUE) or binds a
                                    \* new array (FALSE)

selfvars == <<simple_heuristics, operators, selectors, num_iterations>>
histvars == <<historical_global_fitness, historical_global_position,
              historical_centroid, historical_radius, historical_stagnation>>
agentvars == <<positions, fitness, previous_positions, previous_fitness>>
bestvars == <<particular_best_positions, particular_best_fitness,
              global_best_fitness, global_best_position, heap>>
popvars == <<pop_iteration, agentvars, bestvars, in_place>>
vars == <<selfvars, histvars, pc, iteration, step, error, trace, popvars>>

\* a coordinate that has not been set (numpy nan)
NaN == MaxCoord + 1

\* ------------------------------------------------ Population (from the spec)
\* selection strategies update_positions recognises
pop_selection == {"all", "greedy"}

\* whether `new` replaces `old` under the selector (minimisation)
Selected(selector, new, old) ==
    IF selector = "greedy" THEN new <= old ELSE TRUE

\* the objective: the distance to the origin
Objective(x) == x

\* is_constrained: positions stay inside the boundaries
Clip(x) == IF x < 0 THEN 0 ELSE IF x > MaxCoord THEN MaxCoord ELSE x

\* named operators and the keywords each accepts
Keywords(operator) ==
    IF operator = "random_search" THEN {"scale", "distribution"}
    ELSE IF operator = "pull_to_best" THEN {"step"}
    ELSE {}

Registered(operator) == operator \in {"random_search", "pull_to_best"}

\* the number bound to `key` in a call, 1 by default
Bound(call, key) ==
    LET at == {k \in 1..Len(call.parameters) : call.parameters[k][1] = key}
    IN  IF at = {} THEN 1 ELSE call.parameters[CHOOSE k \in at : TRUE][2].v

\* the best agent: the first of those with the least fitness
Argmin(f) ==
    CHOOSE a \in Agents :
        /\ \A b \in Agents : f[a] <= f[b]
        /\ \A b \in Agents : f[b] = f[a] => a <= b

\* one step of x towards `target`, of at most `by`
Pull(x, target, by) ==
    IF target = NaN THEN x
    ELSE IF x < target THEN (IF target - x < by THEN target ELSE x + by)
    ELSE IF x - target < by THEN target ELSE x - by

\* ------------------------------------------------------------ construction
\* __init__: the population is created, the heuristics are processed, the
\* historical variables are empty lists.
Init ==
    /\ simple_heuristics \in Heuristics
    /\ operators = process_heuristics(simple_heuristics).executable_operators
    /\ selectors = process_heuristics(simple_heuristics).selectors
    /\ num_iterations \in 0..MaxIterations
    /\ historical_global_fitness = <<>>
    /\ historical_global_position = <<>>
    /\ historical_centroid = <<>>
    /\ historical_radius = <<>>
    /\ historical_stagnation = <<>>
    /\ pc = "idle"
    /\ iteration = 0
    /\ step = 0
    /\ error = "none"
    /\ trace = <<>>
    /\ pop_iteration \in 0..MaxIterations
    /\ positions = [a \in Agents |-> NaN]
    /\ fitness = [a \in Agents |-> Inf]
    /\ previous_positions = [a \in Agents |-> NaN]
    /\ previous_fitness = [a \in Agents |-> Inf]
    /\ particular_best_positions = [a \in Agents |-> NaN]
    /\ particular_best_fitness = [a \in Agents |-> Inf]
    /\ global_best_fitness = Inf
    /\ global_best_position = 1
    /\ heap = <<NaN>>
    /\ in_place \in BOOLEAN

\* --------------------------------------------------------------- run()
\* Following with the fitness evaluated only after the population update
Following_evaluate_late(p) ==
    CASE p = "boot_initialise" -> "boot_evaluate"
      [] p = "boot_evaluate" -> "boot_population"
      [] p = "boot_population" -> "boot_particular"
      [] p = "boot_particular" -> "boot_global"
      [] p = "boot_global" -> "boot_record"
      [] p = "boot_record" -> "for_iteration"
      [] p = "apply" -> "population"
      [] p = "population" -> "evaluate"
      [] p = "evaluate" -> "global"
      [] p = "global" -> "for_step"
      [] p = "record" -> "for_iteration"

\* Following with the particular-level update after the global one
Following_particular_last(p) ==
    CASE p = "boot_initialise" -> "boot_evaluate"
      [] p = "boot_evaluate" -> "boot_population"
      [] p = "boot_population" -> "boot_global"
      [] p = "boot_global" -> "boot_particular"
      [] p = "boot_particular" -> "boot_record"
      [] p = "boot_record" -> "for_iteration"
      [] p = "apply" -> "evaluate"
      [] p = "evaluate" -> "population"
      [] p = "population" -> "global"
      [] p = "global" -> "for_step"
      [] p = "record" -> "for_iteration"

\* Following without the record that ends the bootstrap
Following_no_first_record(p) ==
    CASE p = "boot_initialise" -> "boot_evaluate"
      [] p = "boot_evaluate" -> "boot_population"
      [] p = "boot_population" -> "boot_particular"
      [] p = "boot_particular" -> "boot_global"
      [] p = "boot_global" -> "for_iteration"
      [] p = "boot_record" -> "for_iteration"
      [] p = "apply" -> "evaluate"
      [] p = "evaluate" -> "population"
      [] p = "population" -> "global"
      [] p = "global" -> "for_step"
      [] p = "record" -> "for_iteration"

\* the statement that follows each call of run(), in program order
Following(p) ==
    CASE p = "boot_initialise" -> "boot_evaluate"
      [] p = "boot_evaluate" -> "boot_population"
      [] p = "boot_population" -> "boot_particular"
      [] p = "boot_particular" -> "boot_global"
      [] p = "boot_global" -> "boot_record"
      [] p = "boot_record" -> "for_iteration"
      [] p = "apply" -> "evaluate"
      [] p = "evaluate" -> "population"
      [] p = "population" -> "global"
      [] p = "global" -> "for_step"
      [] p = "record" -> "for_iteration"

\* IterationRange as range(1, self.num_iterations)
IterationRange_short == 1..(num_iterations - 1)

\* range(1, self.num_iterations + 1)
IterationRange == 1..num_iterations

\* NumSteps that leaves out the last step of the plan
NumSteps_short ==
    IF Len(operators) = 0 THEN 0 ELSE Len(operators) - 1

\* zip(self.operators, self.selectors): as long as the shorter list
NumSteps ==
    IF Len(operators) <= Len(selectors) THEN Len(operators) ELSE Len(selectors)

\* the arguments of the update_positions calls
BootPopulationUpdate == [level |-> "population", selector |-> "all"]

BootParticularUpdate == [level |-> "particular", selector |-> "all"]

BootGlobalUpdate == [level |-> "global", selector |-> "greedy"]

\* StepPopulationUpdate at the particular level
StepPopulationUpdate_particular(selector) ==
    IF selector \in pop_selection
    THEN [level |-> "particular", selector |-> selector]
    ELSE [level |-> "particular", selector |-> "all"]

\* StepPopulationUpdate without the membership test
StepPopulationUpdate_unchecked(selector) ==
    [level |-> "population", selector |-> selector]

StepPopulationUpdate(selector) ==
    IF selector \in pop_selection
    THEN [level |-> "population", selector |-> selector]
    ELSE [level |-> "population", selector |-> "all"]

\* StepGlobalUpdate with the update's default selector
StepGlobalUpdate_all == [level |-> "global", selector |-> "all"]

StepGlobalUpdate == [level |-> "global", selector |-> "greedy"]

UpdateArguments ==
    CASE pc = "boot_population" -> BootPopulationUpdate
      [] pc = "boot_particular" -> BootParticularUpdate
      [] pc = "boot_global" -> BootGlobalUpdate
      [] pc = "population" -> StepPopulationUpdate(selectors[step])
      [] pc = "global" -> StepGlobalUpdate

\* Propagate with a handler around the step that goes on with the next step
Propagate_swallow(p) ==
    IF p \in {"apply", "evaluate", "population", "global"}
    THEN "for_step" ELSE "raised"

\* where control goes when a call raises: run() handles no exception
Propagate(p) == "raised"

Called(call, level, selector) ==
    Append(trace, [call |-> call, level |-> level, selector |-> selector,
                   iteration |-> iteration, step |-> step])

\* self.pop.iteration = 0
Run ==
    /\ pc = "idle"
    /\ pc' = "boot_initialise"
    /\ pop_iteration' = 0
    /\ iteration' = 0
    /\ step' = 0
    /\ error' = "none"
    /\ trace' = <<>>
    /\ UNCHANGED <<selfvars, histvars, agentvars, bestvars, in_place>>

\* self.pop.initialise_uniformly()
InitialiseUniformly ==
    /\ pc = "boot_initialise"
    /\ \E p \in [Agents -> Coords] : positions' = p
    /\ pc' = Following(pc)
    /\ trace' = Called("initialise_uniformly", "", "")
    /\ UNCHANGED <<selfvars, histvars, iteration, step, error, pop_iteration,
                   fitness, previous_positions, previous_fitness, bestvars,
                   in_place>>

\* self.pop.evaluate_fitness()
EvaluateFitness ==
    /\ pc \in {"boot_evaluate", "evaluate"}
    /\ fitness' = [a \in Agents |-> Objective(positions[a])]
    /\ pc' = Following(pc)
    /\ trace' = Called("evaluate_fitness", "", "")
    /\ UNCHANGED <<selfvars, histvars, iteration, step, error, pop_iteration,
                   positions, previous_positions, previous_fitness, bestvars,
                   in_place>>

\* update_positions at the population level: an agent keeps its new position
\* if selected, and returns to its previous one otherwise
UpdatePopulation(selector) ==
    LET keep == [a \in Agents |->
                    Selected(selector, fitness[a], previous_fitness[a])]
    IN  /\ positions' = [a \in Agents |->
            IF keep[a] THEN positions[a] ELSE previous_positions[a]]
        /\ fitness' = [a \in Agents |->
            IF keep[a] THEN fitness[a] ELSE previous_fitness[a]]
        /\ previous_positions' = positions'
        /\ previous_fitness' = fitness'
        /\ UNCHANGED bestvars

\* update_positions at the particular level: each agent's own best
UpdateParticular(selector) ==
    LET keep == [a \in Agents |->
                    Selected(selector, fitness[a], particular_best_fitness[a])]
    IN  /\ particular_best_positions' = [a \in Agents |->
            IF keep[a] THEN positions[a] ELSE particular_best_positions[a]]
        /\ particular_best_fitness' = [a \in Agents |->
            IF keep[a] THEN fitness[a] ELSE particular_best_fitness[a]]
        /\ UNCHANGED <<agentvars, global_best_fitness, global_best_position,
                       heap>>

\* update_positions at the global level: the best agent is the candidate
UpdateGlobal(selector) ==
    LET best == Argmin(fitness)
    IN  /\ IF Selected(selector, fitness[best], global_best_fitness)
           THEN /\ global_best_fitness' = fitness[best]
                /\ IF in_place
                   THEN /\ heap' = [heap EXCEPT
                                      ![global_best_position] = positions[best]]
                        /\ UNCHANGED global_best_position
                   ELSE /\ heap' = Append(heap, positions[best])
                        /\ global_best_position' = Len(heap) + 1
           ELSE UNCHANGED <<global_best_fitness, global_best_position, heap>>
        /\ UNCHANGED <<agentvars, particular_best_positions,
                       particular_best_fitness>>

\* self.pop.update_positions(level, selector)
UpdatePositions ==
    /\ pc \in {"boot_population", "boot_particular", "boot_global",
               "population", "global"}
    /\ UpdateArguments.selector \in pop_selection
    /\ LET args == UpdateArguments
       IN  /\ CASE args.level = "population" -> UpdatePopulation(args.selector)
                [] args.level = "particular" -> UpdateParticular(args.selector)
                [] args.level = "global" -> UpdateGlobal(args.selector)
           /\ trace' = Called("update_positions", args.level, args.selector)
    /\ pc' = Following(pc)
    /\ UNCHANGED <<selfvars, histvars, iteration, step, error, pop_iteration,
                   in_place>>

\* the call an executable string denotes, and whether the population has it
Invocation == ParseCall(operators[step])

Callable(call) ==
    /\ call.ok
    /\ Registered(call.operator)
    /\ \A k \in 1..Len(call.parameters) :
          call.parameters[k][1] \in Keywords(call.operator)

\* exec("self.pop." + operator)
Exec ==
    /\ pc = "apply"
    /\ Callable(Invocation)
    /\ LET call == Invocation
       IN  IF call.operator = "random_search"
           THEN \E d \in {-1, 1} :
                   positions' = [a \in Agents |->
                       Clip(positions[a] + d * Bound(call, "scale"))]
           ELSE positions' = [a \in Agents |->
                       Pull(positions[a], heap[global_best_position],
                            Bound(call, "step"))]
    /\ pc' = Following(pc)
    /\ trace' = Called("exec", "", "")
    /\ UNCHANGED <<selfvars, histvars, iteration, step, error, pop_iteration,
                   fitness, previous_positions, previous_fitness, bestvars,
                   in_place>>

\* IterationCounter one behind the loop
IterationCounter_previous(k) == k - 1

\* self.pop.iteration = iteration
IterationCounter(k) == k

\* for iteration in range(1, self.num_iterations + 1):
\*     self.pop.iteration = iteration
ForIteration ==
    /\ pc = "for_iteration"
    /\ IF iteration + 1 \in IterationRange
       THEN /\ iteration' = iteration + 1
            /\ pop_iteration' = IterationCounter(iteration + 1)
            /\ step' = 0
            /\ pc' = "for_step"
       ELSE /\ pc' = "done"
            /\ UNCHANGED <<iteration, pop_iteration, step>>
    /\ UNCHANGED <<selfvars, histvars, error, trace, agentvars, bestvars,
                   in_place>>

\* for operator, selector in zip(self.operators, self.selectors):
ForStep ==
    /\ pc = "for_step"
    /\ IF step < NumSteps
       THEN /\ step' = step + 1
            /\ pc' = "apply"
       ELSE /\ pc' = "record"
            /\ UNCHANGED step
    /\ UNCHANGED <<selfvars, histvars, iteration, error, trace, popvars>>

\* ------------------------------------------------- __update_historicals
Abs(x) == IF x < 0 THEN 0 - x ELSE x

\* floats are multiples of 1 / Scale: no quotient or difference the record
\* computes is finer
Scale == 2 ^ (Precision + NumAgents)

\* the float of a grid coordinate
Float(c) == Unit * c * Scale

\* the unit in the last place of the float nearest to a / b (a, b > 0); a
\* quotient too small to fill the significand is a multiple of 1 / Scale
Ulp(a, b) ==
    CHOOSE u \in {2 ^ j : j \in 0..(2 * NumAgents + Unit * MaxCoord + 1)} :
        /\ u = 1 \/ 2 ^ (Precision - 1) * u * b <= a
        /\ a < 2 ^ Precision * u * b

\* the float nearest to a / b (a, b >= 0, b # 0), ties to even
RoundTo(a, b) ==
    IF a = 0 THEN 0
    ELSE LET u == Ulp(a, b)
             m == a \div (u * b)
             twice == 2 * (a - m * u * b)
         IN  IF twice > u * b \/ (twice = u * b /\ m % 2 = 1)
             THEN (m + 1) * u
             ELSE m * u

\* add.reduce over the agents: one rounded addition per agent
RECURSIVE FloatSum(_, _)
FloatSum(p, n) ==
    IF n = 1 THEN Float(p[1])
    ELSE RoundTo(FloatSum(p, n - 1) + Float(p[n]), 1)

\* np.array(self.pop.positions).mean(0): the sum, divided by the number of
\* agents; a vector of one component
Centroid(p) == <<RoundTo(FloatSum(p, NumAgents), NumAgents)>>

\* np.linalg.norm(positions - np.tile(centroid, (num_agents, 1)), 2, 1).max():
\* in one dimension the norm of a difference is its absolute value
Radius(p, centroid) ==
    LET norm == [a \in Agents |->
                    RoundTo(Abs(Float(p[a]) - centroid[1]), 1)]
    IN  CHOOSE r \in {norm[a] : a \in Agents} : \A a \in Agents : norm[a] <= r

\* InstantaneousStagnation comparing with <= in place of ==
InstantaneousStagnation_leq(global_fitness, stagnation) ==
    IF pop_iteration > 0
       /\ global_fitness[Len(global_fitness)]
            <= global_fitness[Len(global_fitness) - 1]
    THEN stagnation[Len(stagnation)] + 1
    ELSE 0

\* InstantaneousStagnation without the + 1
InstantaneousStagnation_same(global_fitness, stagnation) ==
    IF pop_iteration > 0
       /\ global_fitness[Len(global_fitness) - 1]
            = global_fitness[Len(global_fitness)]
    THEN stagnation[Len(stagnation)]
    ELSE 0

\* InstantaneousStagnation that looks back whenever there is an earlier entry
InstantaneousStagnation_by_length(global_fitness, stagnation) ==
    IF Len(global_fitness) >= 2
       /\ global_fitness[Len(global_fitness) - 1]
            = global_fitness[Len(global_fitness)]
    THEN stagnation[Len(stagnation)] + 1
    ELSE 0

\* the stagnation appended, given the fitness list after its append
InstantaneousStagnation(global_fitness, stagnation) ==
    IF pop_iteration > 0
       /\ global_fitness[Len(global_fitness) - 1]
            = global_fitness[Len(global_fitness)]
    THEN stagnation[Len(stagnation)] + 1
    ELSE 0

\* the centroid kept as one more entry of a history
StoredCentroid_append(old, p) == old \o Centroid(p)

\* self.historical_centroid = ...: the attribute is bound to the new centroid
StoredCentroid(old, p) == Centroid(p)

UpdateHistoricals ==
    /\ pc \in {"boot_record", "record"}
    /\ historical_global_fitness' =
           Append(historical_global_fitness, global_best_fitness)
    /\ historical_global_position' =
           Append(historical_global_position, global_best_position)
    /\ historical_centroid' = StoredCentroid(historical_centroid, positions)
    /\ historical_radius' =
           Append(historical_radius, Radius(positions, historical_centroid'))
    /\ IF pop_iteration > 0
          /\ (Len(historical_global_fitness') < 2 \/ historical_stagnation = <<>>)
       THEN \* historical_global_fitness[-2], historical_stagnation[-1]
            /\ error' = "IndexError"
            /\ pc' = Propagate(pc)
            /\ UNCHANGED <<historical_stagnation, trace>>
       ELSE /\ historical_stagnation' =
                   Append(historical_stagnation,
                          InstantaneousStagnation(historical_global_fitness',
                                                  historical_stagnation))
            /\ pc' = Following(pc)
            /\ trace' = Called("update_historicals", "", "")
            /\ UNCHANGED error
    /\ UNCHANGED <<selfvars, iteration, step, popvars>>

\* ------------------------------------------------------------ exceptions
\* what a call of the population raises when it fails
ErrorOf(p) ==
    CASE p = "apply" ->
            IF ~Invocation.ok THEN "SyntaxError"
            ELSE IF ~Registered(Invocation.operator) THEN "AttributeError"
            ELSE IF ~Callable(Invocation) THEN "TypeError"
            ELSE "BoundaryViolationError"
      [] p \in {"boot_evaluate", "evaluate"} -> "EvaluationError"
      [] p = "boot_initialise" -> "BoundaryViolationError"
      [] OTHER ->
            IF UpdateArguments.selector \notin pop_selection
            THEN "UnknownSelectorError"
            ELSE "EvaluationError"

\* a call raises: nothing in run() catches it
Raise ==
    /\ pc \in {"boot_initialise", "boot_evaluate", "boot_population",
               "boot_particular", "boot_global",
               "apply", "evaluate", "population", "global"}
    /\ error' = ErrorOf(pc)
    /\ pc' = Propagate(pc)
    /\ UNCHANGED <<selfvars, histvars, iteration, step, trace, popvars>>

Next ==
    \/ Run
    \/ InitialiseUniformly
    \/ EvaluateFitness
    \/ UpdatePositions
    \/ Exec
    \/ ForIteration
    \/ ForStep
    \/ UpdateHistoricals
    \/ Raise

Spec == Init /\ [][Next]_vars

\* ------------------------------------------- run() again on the same engine
\* the calls of run() so far, each counted from its first completed call
Runs ==
    Cardinality({n \in 1..Len(trace) : trace[n].call = "initialise_uniformly"})

\* run() called on an engine whose previous run() has returned: the histories
\* and the population are what that run left
RunAgain ==
    /\ pc = "done"
    /\ Runs < MaxRuns
    /\ pc' = "boot_initialise"
    /\ pop_iteration' = 0
    /\ iteration' = 0
    /\ step' = 0
    /\ error' = "none"
    /\ UNCHANGED <<selfvars, histvars, trace, agentvars, bestvars, in_place>>

\* engines that run no iteration of an empty plan, or one iteration of one
\* random_search, over a population that binds a new array at each update
InitRerun ==
    /\ Init
    /\ simple_heuristics \in {<<>>, <<Descriptor("random_search", <<>>, "greedy")>>}
    /\ num_iterations = Len(simple_heuristics)
    /\ ~in_place

NextRerun == Next \/ RunAgain

SpecRerun == InitRerun /\ [][NextRerun]_vars

\* ================================================================ claims
HistoryLengths ==
    <<Len(historical_global_fitness), Len(historical_global_position),
      Len(historical_radius), Len(historical_stagnation)>>

\* C1: when run() has completed on a fresh engine, the four historical
\* sequences each have exactly num_iterations + 1 entries.
C1_HistoryLength ==
    pc = "done" =>
        \A k \in 1..4 : HistoryLengths[k] = num_iterations + 1

C1_Witness ==
    /\ pc = "done"
    /\ num_iterations > 1
    /\ Len(historical_stagnation) = num_iterations + 1

\* C2: stagnation[0] = 0 and, from the second entry on, an entry is its
\* predecessor plus one exactly when the fitness recorded with it equals the
\* fitness recorded before it, and is 0 otherwise.
C2_Stagnation ==
    /\ historical_stagnation # <<>> => historical_stagnation[1] = 0
    /\ \A i \in 2..Len(historical_stagnation) :
          /\ historical_stagnation[i] = historical_stagnation[i - 1] + 1
               <=> historical_global_fitness[i] = historical_global_fitness[i - 1]
          /\ historical_global_fitness[i] # historical_global_fitness[i - 1]
               => historical_stagnation[i] = 0

\* a history with an entry that repeats the fitness and a later one that
\* improves it
C2_Witness ==
    \E i, j \in 2..Len(historical_stagnation) :
        /\ i < j
        /\ historical_stagnation[i] = 1
        /\ historical_global_fitness[j] < historical_global_fitness[j - 1]
        /\ historical_stagnation[j] = 0

\* C3: every recorded global fitness is at least as good (here: not
\* greater) than the one recorded before it.
C3_MonotonicGlobalBest ==
    \A i \in 2..Len(historical_global_fitness) :
        historical_global_fitness[i] <= historical_global_fitness[i - 1]

\* an iteration was recorded whose agents are all worse than the global best
C3_Witness ==
    /\ pc = "for_iteration"
    /\ Len(historical_global_fitness) > 1
    /\ \A a \in Agents : fitness[a] > global_best_fitness
    /\ historical_global_fitness[Len(historical_global_fitness)]
         = global_best_fitness

\* C4: an engine whose descriptor list names an operator the population does
\* not have is never constructed with a plan, so run() is never reached with
\* a plan that names such an operator.
C4_UnknownOperatorRejected ==
    (\E j \in 1..Len(operators) : ~Registered(ParseCall(operators[j]).operator))
        => pc = "idle"

\* C5: once a call inside a step of iteration k has failed, run() is over:
\* nothing is retried, no further call is made, and the four historical
\* sequences hold exactly k entries.
C5_AbortKeepsHistory ==
    /\ [](error # "none" /\ iteration >= 1 =>
            /\ pc = "raised"
            /\ \A k \in 1..4 : HistoryLengths[k] = iteration)
    /\ [][error # "none" => UNCHANGED <<trace, histvars, popvars>>]_vars

\* the global update of the second step of the second iteration failed
C5_Witness ==
    /\ pc = "raised"
    /\ error = "EvaluationError"
    /\ iteration > 1
    /\ step > 1
    /\ trace[Len(trace)].level = "population"
    /\ Len(historical_global_fitness) = iteration

IsCall(e, call, level) == e.call = call /\ e.level = level

\* the call that precedes call n of the trace
Before(n) == trace[n - 1]

SameStep(e, f) == e.iteration = f.iteration /\ e.step = f.step

\* C6: within every iteration the steps run in the order of the plan, and a
\* step is exactly: apply the operator, evaluate the fitness, update at the
\* population level, update at the global level; a step's operator is
\* applied right after the previous step's global update (or, for the first
\* step, right after the previous record), and the record follows the last
\* step's global update.
C6_StepOrder ==
    \A n \in 1..Len(trace) :
        LET e == trace[n]
        IN  e.iteration >= 1 =>
            /\ n > 1
            /\ e.step \in 0..NumSteps
            /\ IsCall(e, "exec", "") =>
                 \/ /\ e.step = 1
                    /\ IsCall(Before(n), "update_historicals", "")
                    /\ Before(n).iteration = e.iteration - 1
                 \/ /\ e.step > 1
                    /\ IsCall(Before(n), "update_positions", "global")
                    /\ Before(n).iteration = e.iteration
                    /\ Before(n).step = e.step - 1
            /\ IsCall(e, "evaluate_fitness", "") =>
                 IsCall(Before(n), "exec", "") /\ SameStep(Before(n), e)
            /\ IsCall(e, "update_positions", "population") =>
                 IsCall(Before(n), "evaluate_fitness", "")
                 /\ SameStep(Before(n), e)
            /\ IsCall(e, "update_positions", "global") =>
                 /\ IsCall(Before(n), "update_positions", "population")
                 /\ SameStep(Before(n), e)
                 /\ e.selector = "greedy"
            /\ IsCall(e, "update_historicals", "") =>
                 /\ e.step = NumSteps
                 /\ IF NumSteps = 0
                    THEN /\ IsCall(Before(n), "update_historicals", "")
                         /\ Before(n).iteration = e.iteration - 1
                    ELSE /\ IsCall(Before(n), "update_positions", "global")
                         /\ SameStep(Before(n), e)
            /\ ~IsCall(e, "update_positions", "particular")
            /\ ~IsCall(e, "initialise_uniformly", "")

\* two iterations of a plan of two steps have run
C6_Witness ==
    /\ pc = "done"
    /\ NumSteps > 1
    /\ iteration > 1
    /\ \E n \in 1..Len(trace) :
          IsCall(trace[n], "exec", "") /\ trace[n].step > 1
          /\ trace[n].iteration > 1

\* the records among the first n calls
Records(n) ==
    Cardinality({m \in 1..n : IsCall(trace[m], "update_historicals", "")})

\* C7: a full run records exactly num_iterations + 1 times: once after the
\* bootstrap and once at the end of each iteration, after all its steps; no
\* call of iteration k + 1 is made before the record of iteration k.
C7_RecordCalls ==
    /\ pc = "done" => Records(Len(trace)) = num_iterations + 1
    /\ Len(historical_global_fitness) = Records(Len(trace))
    /\ \A n \in 1..Len(trace) :
          /\ Records(n - 1) = trace[n].iteration
          /\ IsCall(trace[n], "update_historicals", "") =>
                \A m \in 1..Len(trace) :
                    (m < n <=> trace[m].iteration <= trace[n].iteration /\ m # n)

C7_Witness ==
    /\ pc = "done"
    /\ num_iterations > 1
    /\ NumSteps = 1
    /\ Records(Len(trace)) > 2

\* C8: the population-level update of a step is called with the step's
\* selector when the population recognises it and with "all" otherwise; no
\* run ends with UnknownSelectorError.
C8_PopulationSelector ==
    /\ error # "UnknownSelectorError"
    /\ \A n \in 1..Len(trace) :
          LET e == trace[n]
          IN  IsCall(e, "update_positions", "population") /\ e.iteration >= 1 =>
                IF selectors[e.step] \in pop_selection
                THEN e.selector = selectors[e.step]
                ELSE e.selector = "all"

\* a run has completed with a step whose selector the population does not
\* recognise, and a step whose selector it does
C8_Witness ==
    /\ pc = "done"
    /\ \E n, m \in 1..Len(trace) :
          /\ IsCall(trace[n], "update_positions", "population")
          /\ IsCall(trace[m], "update_positions", "population")
          /\ trace[n].iteration >= 1
          /\ trace[m].iteration >= 1
          /\ selectors[trace[n].step] \notin pop_selection
          /\ trace[n].selector = "all"
          /\ selectors[trace[m].step] \in pop_selection

\* the position a history entry shows
RecordedPosition(i) == heap[historical_global_position[i]]

\* C9: the record changes neither the positions, nor the global best, nor
\* the iteration counter, and no step of the run changes the value of an
\* entry of the four histories once it is appended.
C9_RecordIsAdditive ==
    [][/\ pc \in {"boot_record", "record"} =>
            UNCHANGED <<pop_iteration, agentvars, bestvars>>
       /\ \A k \in 1..4 : HistoryLengths'[k] >= HistoryLengths[k]
       /\ \A i \in 1..Len(historical_global_fitness) :
             historical_global_fitness'[i] = historical_global_fitness[i]
       /\ \A i \in 1..Len(historical_radius) :
             historical_radius'[i] = historical_radius[i]
       /\ \A i \in 1..Len(historical_stagnation) :
             historical_stagnation'[i] = historical_stagnation[i]
       /\ \A i \in 1..Len(historical_global_position) :
             RecordedPosition(i)' = RecordedPosition(i)]_vars

\* C10: the plan has one step per descriptor, in order; step j carries the
\* operator, the parameters and the selector of descriptor j; compiling the
\* same descriptors again gives the same plan; run() never changes the plan.
C10_PlanCarriesDescriptors ==
    /\ Len(operators) = Len(simple_heuristics)
    /\ Len(selectors) = Len(simple_heuristics)
    /\ operators = process_heuristics(simple_heuristics).executable_operators
    /\ selectors = process_heuristics(simple_heuristics).selectors
    /\ \A j \in 1..Len(simple_heuristics) :
          /\ selectors[j] = simple_heuristics[j].selector
          /\ ParseCall(operators[j]) =
                [ok |-> TRUE, operator |-> simple_heuristics[j].operator,
                 parameters |-> simple_heuristics[j].parameters]

\* C11: while every record so far shows the same global best fitness, entry
\* i of the stagnation is i (counting from 0); while every record improves
\* on the one before it, every entry of the stagnation is 0.
C11_StagnationExtremes ==
    /\ (\A i \in 2..Len(historical_global_fitness) :
            historical_global_fitness[i] = historical_global_fitness[i - 1])
        => \A i \in 1..Len(historical_stagnation) :
               historical_stagnation[i] = i - 1
    /\ (\A i \in 2..Len(historical_global_fitness) :
            historical_global_fitness[i] < historical_global_fitness[i - 1])
        => \A i \in 1..Len(historical_stagnation) :
               historical_stagnation[i] = 0

\* a completed run of more than one iteration whose global best never moved
C11_Witness ==
    /\ pc = "done"
    /\ num_iterations > 1
    /\ \A i \in 2..Len(historical_global_fitness) :
          historical_global_fitness[i] = historical_global_fitness[i - 1]
    /\ historical_stagnation[Len(historical_stagnation)] = num_iterations

\* a completed run of at least one iteration whose every record improved
C11_WitnessImproving ==
    /\ pc = "done"
    /\ num_iterations > 0
    /\ \A i \in 2..Len(historical_global_fitness) :
          historical_global_fitness[i] < historical_global_fitness[i - 1]

\* the sum of the first n coordinates
RECURSIVE SumUpTo(_, _)
SumUpTo(f, n) == IF n = 0 THEN 0 ELSE f[n] + SumUpTo(f, n - 1)

\* NumAgents times the largest distance of an agent to the mean of the
\* coordinates
Spread(p) ==
    LET distance == [a \in Agents |-> Abs(NumAgents * p[a] - SumUpTo(p, NumAgents))]
    IN  CHOOSE r \in {distance[a] : a \in Agents} :
            \A a \in Agents : distance[a] <= r

\* the positions are those of the last record
JustRecorded == pc \in {"for_iteration", "done"}

\* C12: every recorded radius is at least 0; the radius of a record is the
\* largest Euclidean distance of an agent to the component-wise mean of the
\* positions at that record, and it is 0 when all the agents are at one
\* position.
C12_Radius ==
    /\ \A i \in 1..Len(historical_radius) : historical_radius[i] >= 0
    /\ JustRecorded =>
          LET radius == historical_radius[Len(historical_radius)]
          IN  /\ NumAgents * radius = Float(Spread(positions))
              /\ (\A a, b \in Agents : positions[a] = positions[b]) => radius = 0

\* C13: every record overwrites the stored centroid with the mean of the
\* positions of that record, so the stored centroid is one vector, that of the
\* last record, however many records there were; the fitness, position,
\* radius and stagnation histories have one entry for each record.
C13_CentroidOverwritten ==
    /\ historical_centroid = <<>> <=> Records(Len(trace)) = 0
    /\ Records(Len(trace)) > 0 => Len(historical_centroid) = 1
    /\ JustRecorded => historical_centroid = Centroid(positions)
    /\ \A k \in 1..4 : HistoryLengths[k] = Records(Len(trace))

\* a completed run of three records, the first and the last taken over
\* different positions, that keeps the centroid of the last one only
C13_Witness ==
    /\ pc = "done"
    /\ Records(Len(trace)) = 3
    /\ Len(historical_centroid) = 1
    /\ historical_radius[1] # historical_radius[3]
    /\ historical_centroid = Centroid(positions)

\* the calls of the bootstrap, in their order
Bootstrap ==
    <<[call |-> "initialise_uniformly", level |-> "", selector |-> ""],
      [call |-> "evaluate_fitness", level |-> "", selector |-> ""],
      [call |-> "update_positions", level |-> "population", selector |-> "all"],
      [call |-> "update_positions", level |-> "particular", selector |-> "all"],
      [call |-> "update_positions", level |-> "global", selector |-> "greedy"],
      [call |-> "update_historicals", level |-> "", selector |-> ""]>>

\* the positions of run() inside the bootstrap, in their order
BootstrapSteps ==
    <<"boot_initialise", "boot_evaluate", "boot_population", "boot_particular",
      "boot_global", "boot_record">>

\* C14: run() first sets the iteration counter of the population to 0 and
\* then calls, once each and in this order, initialise_uniformly,
\* evaluate_fitness, the population-level update with 'all', the
\* particular-level update with 'all', the global-level update with 'greedy'
\* and the record; every call of a plan step comes after these six.
C14_BootstrapOrder ==
    /\ \A k \in 1..6 :
          pc = BootstrapSteps[k] => Len(trace) = k - 1 /\ pop_iteration = 0
    /\ pc \in {"for_iteration", "for_step", "apply", "evaluate", "population",
               "global", "record", "done"} => Len(trace) >= 6
    /\ \A n \in 1..Len(trace) :
          IF n <= 6
          THEN /\ trace[n].call = Bootstrap[n].call
               /\ trace[n].level = Bootstrap[n].level
               /\ trace[n].selector = Bootstrap[n].selector
               /\ trace[n].iteration = 0
          ELSE /\ trace[n].iteration >= 1
               /\ trace[n].call # "initialise_uniformly"

\* a completed run that went through the bootstrap and at least one plan step
C14_Witness ==
    /\ pc = "done"
    /\ Len(trace) > 6
    /\ \E n \in 1..Len(trace) : trace[n].call = "exec"
    /\ \A n \in 1..6 : trace[n].call = Bootstrap[n].call

\* C15: during a first run on a fresh engine the fitness, position, radius
\* and stagnation histories have the same length whenever no record is under
\* way; right after a record that length is the iteration counter of the
\* population plus 1; when the run has completed the counter is
\* num_iterations.
C15_LengthFollowsCounter ==
    /\ \A k \in 1..4 : HistoryLengths[k] = HistoryLengths[1]
    /\ JustRecorded =>
          \A k \in 1..4 : HistoryLengths[k] = pop_iteration + 1
    /\ pc = "done" => pop_iteration = num_iterations

\* a completed run of several iterations: the counter is at the last one
C15_Witness ==
    /\ pc = "done"
    /\ num_iterations > 1
    /\ pop_iteration = num_iterations
    /\ Len(historical_radius) = pop_iteration + 1

\* the index, in the histories, of the entry the bootstrap of run r records
BootstrapEntry(r) == (r - 1) * (num_iterations + 1) + 1

\* C16: run() does not clear the histories: when the n-th call of run() on one
\* engine has completed, each of the four histories has
\* n * (num_iterations + 1) entries; the entry that the bootstrap of each run
\* records has stagnation 0, also when the fitness recorded just before it,
\* by the run before, is the same.
C16_HistoryAccumulates ==
    /\ pc = "done" =>
          \A k \in 1..4 : HistoryLengths[k] = Runs * (num_iterations + 1)
    /\ \A r \in 1..Runs :
          BootstrapEntry(r) <= Len(historical_stagnation) =>
              historical_stagnation[BootstrapEntry(r)] = 0

\* a second run has completed; its bootstrap recorded the fitness that the
\* first run recorded last
C16_Witness ==
    /\ pc = "done"
    /\ Runs = 2
    /\ num_iterations = 1
    /\ Len(historical_stagnation) = 4
    /\ historical_global_fitness[BootstrapEntry(2)]
         = historical_global_fitness[BootstrapEntry(2) - 1]
    /\ historical_stagnation[BootstrapEntry(2)] = 0

\* the particular-level updates among the calls so far
ParticularUpdates ==
    {n \in 1..Len(trace) : IsCall(trace[n], "update_positions", "particular")}

\* C17: a run makes the particular-level update once, in its bootstrap, and
\* never inside an iteration of the loop, whatever the plan and its selectors.
C17_ParticularOnce ==
    /\ \A n \in ParticularUpdates : trace[n].iteration = 0 /\ trace[n].step = 0
    /\ Cardinality(ParticularUpdates) <= 1
    /\ pc \in {"boot_global", "boot_record", "for_iteration", "for_step",
               "apply", "evaluate", "population", "global", "record", "done"}
          => Cardinality(ParticularUpdates) = 1

\* a completed run of several iterations of a plan of several steps, with its
\* one particular-level update
C17_Witness ==
    /\ pc = "done"
    /\ num_iterations > 1
    /\ NumSteps > 1
    /\ Cardinality({n \in 1..Len(trace) : trace[n].call = "exec"})
         = num_iterations * NumSteps
    /\ Cardinality(ParticularUpdates) = 1

\* how many of the calls so far are the given call at the given level
Calls(call, level) ==
    Cardinality({n \in 1..Len(trace) : IsCall(trace[n], call, level)})

\* C18: a completed run of T = num_iterations iterations of a plan of
\* L = len(simple_heuristics) steps has called evaluate_fitness 1 + T * L
\* times, applied an operator T * L times and made the global update, always
\* with 'greedy', 1 + T * L times; with an empty plan the iterations apply,
\* evaluate and update nothing, and there are still T + 1 records.
C18_CallCounts ==
    pc = "done" =>
        LET T == num_iterations
            L == Len(simple_heuristics)
        IN  /\ Calls("evaluate_fitness", "") = 1 + T * L
            /\ Calls("exec", "") = T * L
            /\ Calls("update_positions", "global") = 1 + T * L
            /\ \A n \in 1..Len(trace) :
                  IsCall(trace[n], "update_positions", "global") =>
                      trace[n].selector = "greedy"
            /\ L = 0 =>
                  /\ \A n \in 1..Len(trace) :
                        trace[n].iteration >= 1 =>
                            IsCall(trace[n], "update_historicals", "")
                  /\ Records(Len(trace)) = T + 1
                  /\ \A k \in 1..4 : HistoryLengths[k] = T + 1

\* a completed run of two iterations of a plan of two steps
C18_Witness ==
    /\ pc = "done"
    /\ num_iterations = 2
    /\ Len(simple_heuristics) = 2
    /\ Calls("exec", "") = 4
    /\ Calls("evaluate_fitness", "") = 5

\* a completed run of two iterations of the empty plan
C18_WitnessEmptyPlan ==
    /\ pc = "done"
    /\ num_iterations = 2
    /\ simple_heuristics = <<>>
    /\ Len(trace) = 8
    /\ Len(historical_global_fitness) = 3

====
